---- MODULE Spec2Model ----
(***************************************************************************)
(* A model of stconflict (src/src/stconflict/__init__.py): the conflict    *)
(* file-name grammar, the ConflictFile record, the scan / map / tree       *)
(* pipeline of Cli, the heuristics, and the delete / backup / prompt       *)
(* methods acting on one synchronised directory.                           *)
(*                                                                         *)
(* A file name is a sequence of tokens: plain characters, and conflict     *)
(* markers (one match of Conflict.REGEX each, kept with its digit groups). *)
(* An operation that raises leaves its exception's name in last.res.       *)
(***************************************************************************)
EXTENDS Integers, Sequences, FiniteSets, TLC

VARIABLES
    disk,          \* the synchronised directory: file name -> content
    backup,        \* the backup directory: whether it exists, and its files
    commit,        \* args.commit
    PATH,          \* args.PATH
    clock,         \* what datetime.datetime.now() returns
    NOW,           \* Timestamp.NOW, the memoised clock reading
    scan,          \* the list scan_for_conflicts returned (ConflictFile objects)
    parent,        \* ConflictFile.parent of each scanned object (0 is None)
    children,      \* ConflictFile.children of each scanned object
    conflict_map,  \* the dict conflict_map returned, in insertion order
    pc,            \* how far the caller has come
    treeRuns,      \* calls of conflict_tree so far
    actions,       \* the lists Cli.actions returned, one per action
    prompting,     \* the scanned object whose prompt loop is running (0: none)
    last           \* the last operation, the object of a check, and the outcome

vars == <<disk, backup, commit, PATH, clock, NOW, scan, parent, children,
          conflict_map, pc, treeRuns, actions, prompting, last>>

None == 0

----------------------------------------------------------------------------
(* Bounds *)

MaxFiles == 3
MaxChain == 2
MaxNameLen == 4
MaxTreeRuns == 2

----------------------------------------------------------------------------
(* Text *)

Char(c) == [kind |-> "char", ch |-> c]

Dot == Char(".")

\* One match of Conflict.REGEX: the digit groups dy dm dd th tm ts, and uid.
MarkerText(dy, dm, dd, th, tm, ts, uid) ==
    [kind |-> "marker", dy |-> dy, dm |-> dm, dd |-> dd,
     th |-> th, tm |-> tm, ts |-> ts, uid |-> uid]

\* .sync-conflict-20230101-120000-ABC1234
M1 == MarkerText(<<2,0,2,3>>, <<0,1>>, <<0,1>>, <<1,2>>, <<0,0>>, <<0,0>>, "ABC1234")
\* .sync-conflict-20230105-090000-XYZ9876
M2 == MarkerText(<<2,0,2,3>>, <<0,1>>, <<0,5>>, <<0,9>>, <<0,0>>, <<0,0>>, "XYZ9876")
\* .sync-conflict-20231301-120000-ABC1234 : matches REGEX, is no date
MBad == MarkerText(<<2,0,2,3>>, <<1,3>>, <<0,1>>, <<1,2>>, <<0,0>>, <<0,0>>, "ABC1234")

RECURSIVE int(_)
int(digits) ==
    IF digits = <<>> THEN 0
    ELSE 10 * int(SubSeq(digits, 1, Len(digits) - 1)) + digits[Len(digits)]

RECURSIVE Digits(_)
Digits(n) == IF n < 10 THEN <<n>> ELSE Digits(n \div 10) \o <<n % 10>>

RECURSIVE Zeros(_)
Zeros(k) == IF k <= 0 THEN <<>> ELSE <<0>> \o Zeros(k - 1)

\* '{:>0w}'.format(n)
ZeroPad(n, w) == Zeros(w - Len(Digits(n))) \o Digits(n)

Date(yy, mm, dd) == [yy |-> int(yy), mm |-> int(mm), dd |-> int(dd)]

Time(hh, mm, ss) == [hh |-> int(hh), mm |-> int(mm), ss |-> int(ss)]

IsLeap(y) == y % 4 = 0 /\ (y % 100 # 0 \/ y % 400 = 0)

DaysInMonth(y, m) ==
    IF m = 2 THEN (IF IsLeap(y) THEN 29 ELSE 28)
    ELSE IF m \in {4, 6, 9, 11} THEN 30 ELSE 31

\* datetime.datetime(...) raises ValueError outside these ranges
ValidDateTime(d, t) ==
    /\ d.yy \in 1..9999
    /\ d.mm \in 1..12
    /\ d.dd \in 1..DaysInMonth(d.yy, d.mm)
    /\ t.hh \in 0..23
    /\ t.mm \in 0..59
    /\ t.ss \in 0..59

Timestamp(date, time) == [date |-> date, time |-> time]

Conflict(date, time, uid) ==
    [date |-> date, time |-> time, uid |-> uid, timestamp |-> Timestamp(date, time)]

DateRepr(d) == <<ZeroPad(d.yy, 4), ZeroPad(d.mm, 2), ZeroPad(d.dd, 2)>>

TimeRepr(t) == <<ZeroPad(t.hh, 2), ZeroPad(t.mm, 2), ZeroPad(t.ss, 2)>>

\* Conflict.__repr__
ConflictRepr(c) ==
    MarkerText(DateRepr(c.date)[1], DateRepr(c.date)[2], DateRepr(c.date)[3],
               TimeRepr(c.time)[1], TimeRepr(c.time)[2], TimeRepr(c.time)[3], c.uid)

\* Conflict.format
ConflictFormat(conflicts) == [i \in 1..Len(conflicts) |-> ConflictRepr(conflicts[i])]

IsMarker(t) == t.kind = "marker"

IsPlain(t) == t.kind = "char"

\* Conflict.REGEX.finditer(name)
Matches(name) == SelectSeq(name, IsMarker)

\* Conflict.REGEX.sub('', name)
StripMarkers(name) == SelectSeq(name, IsPlain)

ParseOne(m) == Conflict(Date(m.dy, m.dm, m.dd), Time(m.th, m.tm, m.ts), m.uid)

\* Conflict.parse raises ValueError when a match is no datetime
ParseRaises(name) ==
    \E i \in 1..Len(Matches(name)) :
        ~ValidDateTime(ParseOne(Matches(name)[i]).date, ParseOne(Matches(name)[i]).time)

parse(name) == [i \in 1..Len(Matches(name)) |-> ParseOne(Matches(name)[i])]

LastDot(p) ==
    IF \E i \in 1..Len(p) : p[i] = Dot
    THEN CHOOSE i \in 1..Len(p) : p[i] = Dot /\ \A j \in (i + 1)..Len(p) : p[j] # Dot
    ELSE 0

\* os.path.splitext of a name without separators: leading dots start no extension
splitext(p) ==
    LET d == LastDot(p) IN
    IF d > 0 /\ \E j \in 1..(d - 1) : p[j] # Dot
    THEN <<SubSeq(p, 1, d - 1), SubSeq(p, d, Len(p))>>
    ELSE <<p, <<>> >>

\* ConflictFile.format(name, conflicts, ext)
format(name, conflicts, ext) == name \o ConflictFormat(conflicts) \o ext

AllButLast(s) == SubSeq(s, 1, Len(s) - 1)

\* ConflictFile.__init__ up to the assertion
ConflictFile(path, base, name, conflicts) ==
    LET se == splitext(StripMarkers(name))
        original == format(se[1], AllButLast(conflicts), <<>>)
    IN [path |-> path, base |-> base, name |-> name, conflicts |-> conflicts,
        selected |-> se[1], ext |-> se[2], original |-> original,
        root |-> (original = se[1])]

\* str(self)
Str(f) == format(f.selected, f.conflicts, f.ext)

\* assert self.name == str(self)
NameAssertionHolds(f) == f.name = Str(f)

top(f) == f.conflicts[Len(f.conflicts)]

canonical_name(f) == <<f.base, f.name>>

canonical_selected(f) == <<f.base, format(f.selected, <<>>, f.ext)>>

canonical_original(f) == <<f.base, format(f.original, <<>>, f.ext)>>

----------------------------------------------------------------------------
(* Clock and age *)

RECURSIVE DaysBeforeMonth(_, _)
DaysBeforeMonth(y, m) ==
    IF m <= 1 THEN 0 ELSE DaysBeforeMonth(y, m - 1) + DaysInMonth(y, m - 1)

\* the proleptic Gregorian day number datetime subtracts with
Ordinal(d) ==
    LET y == d.yy - 1 IN
    365 * y + (y \div 4) - (y \div 100) + (y \div 400) + DaysBeforeMonth(d.yy, d.mm) + d.dd

SecondOfDay(t) == t.hh * 60 * 60 + t.mm * 60 + t.ss

\* Timestamp.delta: (self.dt - other.dt).total_seconds()
delta(self, other) ==
    (Ordinal(self.date) - Ordinal(other.date)) * (60 * 60 * 24)
        + (SecondOfDay(self.time) - SecondOfDay(other.time))

\* Timestamp.now(): the first reading of the clock is kept
now == IF NOW = <<>> THEN clock ELSE NOW[1]

\* Timestamp.file_age / ConflictFile.age_in_seconds
age_in_seconds(f) == delta(now, top(f).timestamp)

At(y, mo, d, h, mi, s) == Timestamp([yy |-> y, mm |-> mo, dd |-> d], [hh |-> h, mm |-> mi, ss |-> s])

\* Clock readings: M1 is 5 days, almost 6 days, 30 days and 45 days old at
\* them, M2 is 27 hours, 2 days, 26 days and 41 days old.
Clocks ==
    {At(2023, 1, 6, 12, 0, 0), At(2023, 1, 7, 9, 0, 0),
     At(2023, 1, 31, 12, 0, 0), At(2023, 2, 15, 12, 0, 0)}

----------------------------------------------------------------------------
(* The directory *)

Root == "sync"

\* File contents: 0 is the empty file.
Contents == {0, 1}

Stem == <<Char("a")>>

Ext == <<Dot, Char("a")>>

\* M1, M2, M1, ... : the markers of a file that conflicted k times
RECURSIVE Chain(_)
Chain(k) == IF k = 0 THEN <<>> ELSE Chain(k - 1) \o <<IF k % 2 = 1 THEN M1 ELSE M2>>

\* The live file a.a, its conflicts a<M1>.a, a<M1><M2>.a, ..., a second
\* conflict a<M2>.a of the live file, and the conflict <M1>.a of the
\* dot-file .a
DiskNames ==
    {Stem \o Chain(k) \o Ext : k \in 0..MaxChain}
        \cup {Stem \o <<M2>> \o Ext, <<M1>> \o Ext}

Disks ==
    UNION {[names -> Contents] : names \in {n \in SUBSET DiskNames : Cardinality(n) <= MaxFiles}}

isfile(d, path) == path[1] = Root /\ path[2] \in DOMAIN d

Remove(d, name) == [n \in DOMAIN d \ {name} |-> d[n]]

Put(d, name, content) == [n \in DOMAIN d \cup {name} |-> IF n = name THEN content ELSE d[n]]

NoBackup == [exists |-> FALSE, files |-> <<>>]

\* delete without its test of args.commit
delete_uncommitted(d, b, f) ==
    IF isfile(d, canonical_name(f))
    THEN [disk |-> Remove(d, f.name), backup |-> b, res |-> "ok"]
    ELSE [disk |-> d, backup |-> b, res |-> "FileNotFoundError"]

\* ConflictFile.delete: the files afterwards, and what it raised
delete(d, b, f) ==
    IF commit
    THEN IF isfile(d, canonical_name(f))
         THEN [disk |-> Remove(d, f.name), backup |-> b, res |-> "ok"]
         ELSE [disk |-> d, backup |-> b, res |-> "FileNotFoundError"]
    ELSE [disk |-> d, backup |-> b, res |-> "printed"]

\* ConflictFile.backup: mkdir when the directory is missing, then rename
backup_file(d, b, f) ==
    IF commit
    THEN LET made == [exists |-> TRUE, files |-> b.files] IN
         IF isfile(d, canonical_name(f))
         THEN [disk |-> Remove(d, f.name),
               backup |-> [exists |-> TRUE, files |-> Put(b.files, f.name, d[f.name])],
               res |-> "ok"]
         ELSE [disk |-> d, backup |-> made, res |-> "FileNotFoundError"]
    ELSE [disk |-> d, backup |-> b, res |-> "printed"]

\* ConflictFile.show_file: reads and prints; an OSError is printed
show_file(d, b, path) ==
    [disk |-> d, backup |-> b,
     res |-> IF isfile(d, path) THEN "shown" ELSE "failed to show file"]

\* ConflictFile.show_diff: diff --side-by-side reads both files
show_diff(d, b, file_a, file_b) ==
    [disk |-> d, backup |-> b,
     res |-> IF isfile(d, file_a) /\ isfile(d, file_b) THEN "stdout" ELSE "stderr"]

Commands == {"sc", "so", "sb", "kc", "ko", "kb", "do", "db", "qq", "??"}

\* one pass of the loop of ConflictFile.prompt on input i
prompt_input(d, b, f, i) ==
    CASE i = "sc" -> show_file(d, b, canonical_name(f))
      [] i = "so" -> show_file(d, b, canonical_original(f))
      [] i = "sb" -> show_file(d, b, canonical_selected(f))
      [] i = "kc" -> show_file(d, b, canonical_name(f))
      [] i = "ko" -> show_file(d, b, canonical_original(f))
      [] i = "kb" -> show_file(d, b, canonical_selected(f))
      [] i = "do" -> show_diff(d, b, canonical_original(f), canonical_name(f))
      [] i = "db" -> show_diff(d, b, canonical_selected(f), canonical_name(f))
      [] i = "qq" -> [disk |-> d, backup |-> b, res |-> "quit"]
      [] OTHER -> [disk |-> d, backup |-> b, res |-> "ignored"]

\* the head of the loop: self.parent.timestamp() of a non-root without parent
prompt_raises(f, p) == ~f.root /\ p = None

----------------------------------------------------------------------------
(* Heuristics: each is "True", "False" or the exception it raises *)

Bool(b) == IF b THEN "True" ELSE "False"

is_old(d, f, p) == Bool(age_in_seconds(f) > 30 * 60 * 60 * 24)

is_young(d, f, p) == Bool(age_in_seconds(f) < 5 * 60 * 60 * 24)

\* open(selected), open(original), then sha256.update(line) with each text
\* line: update() raises TypeError on a str, so only two empty files compare
is_same(d, f, p) ==
    LET selected == canonical_selected(f)
        original == canonical_original(f)
    IN IF ~isfile(d, selected) THEN "FileNotFoundError"
       ELSE IF ~isfile(d, original) THEN "FileNotFoundError"
       ELSE IF d[selected[2]] # 0 THEN "TypeError"
       ELSE IF d[original[2]] # 0 THEN "TypeError"
       ELSE Bool(d[selected[2]] = d[original[2]])

is_nested(d, f, p) == Bool(p # None)

is_orphan(d, f, p) == Bool(~isfile(d, canonical_original(f)))

is_obsolete(d, f, p) == Bool(~isfile(d, canonical_selected(f)))

\* the dict with YOUNG entered first
mapping_young_first == <<"YOUNG", "OLD", "OBSOLETE", "SAME", "ORPHANED", "NESTED">>

\* the dict of Heuristic.check, in its insertion order
mapping == <<"OLD", "OBSOLETE", "SAME", "ORPHANED", "NESTED", "YOUNG">>

heuristic(h, d, f, p) ==
    CASE h = "OLD" -> is_old(d, f, p)
      [] h = "OBSOLETE" -> is_obsolete(d, f, p)
      [] h = "SAME" -> is_same(d, f, p)
      [] h = "ORPHANED" -> is_orphan(d, f, p)
      [] h = "NESTED" -> is_nested(d, f, p)
      [] h = "YOUNG" -> is_young(d, f, p)

RECURSIVE CheckFrom(_, _, _, _)
CheckFrom(k, d, f, p) ==
    IF k > Len(mapping) THEN "NONE"
    ELSE LET r == heuristic(mapping[k], d, f, p) IN
         IF r = "True" THEN mapping[k]
         ELSE IF r = "False" THEN CheckFrom(k + 1, d, f, p)
         ELSE r

\* Heuristic.check: the first heuristic that holds, NONE, or an exception
check(d, f, p) == CheckFrom(1, d, f, p)

Classifications == {"NONE", "OLD", "SAME", "NESTED", "ORPHANED", "OBSOLETE", "YOUNG"}

\* Action.mapping
Action_mapping(h) ==
    CASE h \in {"OLD", "SAME", "NESTED", "OBSOLETE", "ORPHANED"} -> "DELETE"
      [] h = "YOUNG" -> "PROMPT"
      [] h = "NONE" -> "BACKUP"

----------------------------------------------------------------------------
(* Cli: scan, map, tree, actions *)

\* os.walk lists a directory in no particular order
Listings(d) ==
    {l \in [1..Cardinality(DOMAIN d) -> DOMAIN d] :
        \A i, j \in DOMAIN l : l[i] = l[j] => i = j}

\* what the loop body of scan_for_conflicts does with one name
NameOutcome(path, name) ==
    IF ParseRaises(name) THEN "ValueError"
    ELSE IF parse(name) = <<>> THEN "skip"
    ELSE IF ~NameAssertionHolds(ConflictFile(path, path, name, parse(name)))
         THEN "AssertionError"
    ELSE "ok"

\* the names os.walk yields over all of args.PATH, in order
Walk(paths, listing) ==
    [i \in 1..(Len(paths) * Len(listing)) |->
        <<paths[((i - 1) \div Len(listing)) + 1], listing[((i - 1) % Len(listing)) + 1]>>]

RECURSIVE ScanFrom(_, _, _)
ScanFrom(k, walk, acc) ==
    IF k > Len(walk) THEN [res |-> "ok", scan |-> acc]
    ELSE LET o == NameOutcome(walk[k][1], walk[k][2]) IN
         IF o = "skip" THEN ScanFrom(k + 1, walk, acc)
         ELSE IF o = "ok"
              THEN ScanFrom(k + 1, walk,
                       Append(acc, ConflictFile(walk[k][1], walk[k][1], walk[k][2],
                                                parse(walk[k][2]))))
         ELSE [res |-> o, scan |-> <<>>]

\* Cli.scan_for_conflicts
scan_for_conflicts(paths, listing) == ScanFrom(1, Walk(paths, listing), <<>>)

KeyIndex(m, key) ==
    IF \E j \in 1..Len(m) : m[j].key = key
    THEN CHOOSE j \in 1..Len(m) : m[j].key = key
    ELSE 0

RECURSIVE MapFrom(_, _, _)
MapFrom(k, sc, m) ==
    IF k > Len(sc) THEN m
    ELSE LET key == canonical_name(sc[k])
             j == KeyIndex(m, key)
         IN MapFrom(k + 1, sc,
                IF j = 0 THEN Append(m, [key |-> key, rec |-> k])
                ELSE [m EXCEPT ![j].rec = k])

\* Cli.conflict_map: conflict_map[canonical_name] = conflict_file, in scan order
Cli_conflict_map(sc) == MapFrom(1, sc, <<>>)

InSeq(x, s) == \E i \in 1..Len(s) : s[i] = x

\* set_parent with the two objects exchanged
set_parent_swapped(st, f, p) ==
    IF st.parent[p] # None THEN [st EXCEPT !.res = "AssertionError"]
    ELSE IF InSeq(p, st.children[f])
         THEN [st EXCEPT !.parent[p] = f, !.res = "AssertionError"]
    ELSE [st EXCEPT !.parent[p] = f, !.children[f] = Append(@, p)]

\* set_parent with its assertions stripped, as under python -O
set_parent_unasserted(st, f, p) ==
    [st EXCEPT !.parent[f] = p, !.children[p] = Append(@, f)]

\* ConflictFile.set_parent on the links st: its two assertions and two writes
set_parent(st, f, p) ==
    IF st.parent[f] # None THEN [st EXCEPT !.res = "AssertionError"]
    ELSE IF InSeq(f, st.children[p])
         THEN [st EXCEPT !.parent[f] = p, !.res = "AssertionError"]
    ELSE [st EXCEPT !.parent[f] = p, !.children[p] = Append(@, f)]

RECURSIVE TreeFrom(_, _, _, _)
TreeFrom(k, m, sc, st) ==
    IF k > Len(m) \/ st.res # "ok" THEN st
    ELSE LET f == m[k].rec IN
         IF sc[f].root
         THEN IF InSeq(f, st.tree)
              THEN [st EXCEPT !.res = "AssertionError"]
              ELSE TreeFrom(k + 1, m, sc, [st EXCEPT !.tree = Append(@, f)])
         ELSE LET j == KeyIndex(m, canonical_original(sc[f])) IN
              IF j = 0 THEN [st EXCEPT !.res = "KeyError"]
              ELSE TreeFrom(k + 1, m, sc, set_parent(st, f, m[j].rec))

\* Cli.conflict_tree on the objects' present links
conflict_tree(m, sc, par, ch) ==
    TreeFrom(1, m, sc, [parent |-> par, children |-> ch, tree |-> <<>>, res |-> "ok"])

NoActions == [DELETE |-> <<>>, BACKUP |-> <<>>, PROMPT |-> <<>>]

RECURSIVE ActionsFrom(_, _, _, _, _, _)
ActionsFrom(k, m, sc, par, d, acc) ==
    IF k > Len(m) THEN [res |-> "ok", actions |-> acc]
    ELSE LET f == m[k].rec
             h == check(d, sc[f], par[f])
         IN IF h \in Classifications
            THEN ActionsFrom(k + 1, m, sc, par, d,
                     [acc EXCEPT ![Action_mapping(h)] = Append(@, [rec |-> f, heuristic |-> h])])
            ELSE [res |-> h, actions |-> NoActions]

\* Cli.actions
Cli_actions(m, sc, par, d) == ActionsFrom(1, m, sc, par, d, NoActions)

\* for f in actions[Action.PROMPT]: f.prompt(args), the user typing i and then qq
RECURSIVE PromptAll(_, _, _, _, _, _)
PromptAll(k, list, sc, par, fs, i) ==
    IF k > Len(list) \/ fs.res = "AttributeError" THEN fs
    ELSE LET f == list[k].rec IN
         IF prompt_raises(sc[f], par[f]) THEN [fs EXCEPT !.res = "AttributeError"]
         ELSE PromptAll(k + 1, list, sc, par,
                  prompt_input(prompt_input(fs.disk, fs.backup, sc[f], i).disk,
                               prompt_input(fs.disk, fs.backup, sc[f], i).backup,
                               sc[f], "qq"), i)

----------------------------------------------------------------------------
(* The state machine *)

NoLinks(n) == [i \in 1..n |-> None]

NoChildren(n) == [i \in 1..n |-> <<>>]

Op(op, rec, res) == [op |-> op, rec |-> rec, res |-> res]

Paths == {<<Root>>, <<Root, Root>>}

Init ==
    /\ disk \in Disks
    /\ backup = NoBackup
    /\ commit \in BOOLEAN
    /\ PATH \in Paths
    /\ clock \in Clocks
    /\ NOW = <<>>
    /\ scan = <<>>
    /\ parent = <<>>
    /\ children = <<>>
    /\ conflict_map = <<>>
    /\ pc = "start"
    /\ treeRuns = 0
    /\ actions = NoActions
    /\ prompting = 0
    /\ last = Op("none", 0, "ok")

\* scan = cli.scan_for_conflicts()
ScanForConflicts ==
    /\ pc = "start"
    /\ \E listing \in Listings(disk) :
       \E r \in {scan_for_conflicts(PATH, listing)} :
        /\ scan' = r.scan
        /\ parent' = NoLinks(Len(r.scan))
        /\ children' = NoChildren(Len(r.scan))
        /\ pc' = IF r.res = "ok" THEN "scanned" ELSE "failed"
        /\ last' = Op("scan", 0, r.res)
    /\ UNCHANGED <<disk, backup, commit, PATH, clock, NOW, conflict_map, treeRuns,
                   actions, prompting>>

\* conflict_map = cli.conflict_map(scan)
ConflictMap ==
    /\ pc = "scanned"
    /\ conflict_map' = Cli_conflict_map(scan)
    /\ pc' = "mapped"
    /\ last' = Op("map", 0, "ok")
    /\ UNCHANGED <<disk, backup, commit, PATH, clock, NOW, scan, parent, children,
                   treeRuns, actions, prompting>>

\* cli.conflict_tree(conflict_map), a first time or again
ConflictTree ==
    /\ pc \in {"mapped", "linked"}
    /\ prompting = 0
    /\ treeRuns < MaxTreeRuns
    /\ \E st \in {conflict_tree(conflict_map, scan, parent, children)} :
        /\ parent' = st.parent
        /\ children' = st.children
        /\ last' = Op("tree", 0, st.res)
    /\ treeRuns' = treeRuns + 1
    /\ pc' = "linked"
    /\ UNCHANGED <<disk, backup, commit, PATH, clock, NOW, scan, conflict_map,
                   actions, prompting>>

\* Heuristic.check(conflict_file, args) on a scanned object
Check(f) ==
    /\ pc = "linked"
    /\ prompting = 0
    /\ last' = Op("check", f, check(disk, scan[f], parent[f]))
    /\ NOW' = <<now>>
    /\ UNCHANGED <<disk, backup, commit, PATH, clock, scan, parent, children,
                   conflict_map, pc, treeRuns, actions, prompting>>

\* Action.run(conflict_file, Action.DELETE, args)
Delete(f) ==
    /\ pc = "linked"
    /\ prompting = 0
    /\ \E r \in {delete(disk, backup, scan[f])} :
        /\ disk' = r.disk
        /\ backup' = r.backup
        /\ last' = Op("delete", 0, r.res)
    /\ UNCHANGED <<commit, PATH, clock, NOW, scan, parent, children, conflict_map,
                   pc, treeRuns, actions, prompting>>

\* Action.run(conflict_file, Action.BACKUP, args)
Backup(f) ==
    /\ pc = "linked"
    /\ prompting = 0
    /\ \E r \in {backup_file(disk, backup, scan[f])} :
        /\ disk' = r.disk
        /\ backup' = r.backup
        /\ last' = Op("backup", 0, r.res)
    /\ UNCHANGED <<commit, PATH, clock, NOW, scan, parent, children, conflict_map,
                   pc, treeRuns, actions, prompting>>

\* Action.run(conflict_file, Action.PROMPT, args): up to the first input()
Prompt(f) ==
    /\ pc = "linked"
    /\ prompting = 0
    /\ IF prompt_raises(scan[f], parent[f])
       THEN /\ prompting' = 0
            /\ last' = Op("prompt", 0, "AttributeError")
       ELSE /\ prompting' = f
            /\ last' = Op("prompt", 0, "menu")
    /\ UNCHANGED <<disk, backup, commit, PATH, clock, NOW, scan, parent, children,
                   conflict_map, pc, treeRuns, actions>>

\* the user answers input('>>> ')
PromptInput(i) ==
    /\ prompting # 0
    /\ \E r \in {prompt_input(disk, backup, scan[prompting], i)} :
        /\ disk' = r.disk
        /\ backup' = r.backup
        /\ last' = Op("input", 0, IF i = "qq" THEN r.res ELSE "printed")
    /\ prompting' = IF i = "qq" THEN 0 ELSE prompting
    /\ UNCHANGED <<commit, PATH, clock, NOW, scan, parent, children, conflict_map,
                   pc, treeRuns, actions>>

\* Cli.run: scan, map, tree, actions, report, then the prompts.  What an
\* exception cuts short is left as it was.
Run ==
    /\ pc = "start"
    /\ \E listing \in Listings(disk) :
       \E s \in {scan_for_conflicts(PATH, listing)} :
       \E m \in {Cli_conflict_map(s.scan)} :
       \E t \in {conflict_tree(m, s.scan, NoLinks(Len(s.scan)), NoChildren(Len(s.scan)))} :
       \E a \in {IF s.res = "ok" /\ t.res = "ok"
                 THEN Cli_actions(m, s.scan, t.parent, disk)
                 ELSE [res |-> "skipped", actions |-> NoActions]} :
       \E i \in Commands :
       \E p \in {PromptAll(1, a.actions.PROMPT, s.scan, t.parent,
                           [disk |-> disk, backup |-> backup, res |-> "ok"], i)} :
       \E res \in {IF s.res # "ok" THEN s.res
                   ELSE IF t.res # "ok" THEN t.res
                   ELSE IF a.res # "ok" THEN a.res
                   ELSE IF p.res = "AttributeError" THEN p.res
                   ELSE "ok"} :
            /\ scan' = s.scan
            /\ conflict_map' = m
            /\ parent' = t.parent
            /\ children' = t.children
            /\ treeRuns' = IF s.res = "ok" THEN treeRuns + 1 ELSE treeRuns
            /\ NOW' = IF a.res # "skipped" /\ m # <<>> THEN <<now>> ELSE NOW
            /\ actions' = a.actions
            /\ disk' = p.disk
            /\ backup' = p.backup
            /\ pc' = IF res = "ok" THEN "done" ELSE "failed"
            /\ last' = Op("run", 0, res)
    /\ UNCHANGED <<commit, PATH, clock, prompting>>

\* scan, map and tree in one step, for the callers of the objects' methods:
\* the objects stay as a failing conflict_tree left them
Load ==
    /\ pc = "start"
    /\ \E listing \in Listings(disk) :
       \E s \in {scan_for_conflicts(PATH, listing)} :
       \E m \in {Cli_conflict_map(s.scan)} :
       \E t \in {conflict_tree(m, s.scan, NoLinks(Len(s.scan)), NoChildren(Len(s.scan)))} :
            /\ scan' = s.scan
            /\ conflict_map' = m
            /\ parent' = t.parent
            /\ children' = t.children
            /\ treeRuns' = IF s.res = "ok" THEN treeRuns + 1 ELSE treeRuns
            /\ pc' = IF s.res = "ok" THEN "linked" ELSE "failed"
            /\ last' = Op("load", 0, IF s.res = "ok" THEN t.res ELSE s.res)
    /\ UNCHANGED <<disk, backup, commit, PATH, clock, NOW, actions, prompting>>

\* The pipeline of Cli, step by step or as Cli.run
Next ==
    \/ ScanForConflicts
    \/ ConflictMap
    \/ ConflictTree
    \/ Run

Spec == Init /\ [][Next]_vars

\* The heuristics applied to the scanned objects
HeuristicNext ==
    \/ Load
    \/ \E f \in 1..Len(scan) : Check(f)

HeuristicSpec == Init /\ [][HeuristicNext]_vars

\* The actions applied to the scanned objects
ActionNext ==
    \/ Load
    \/ \E f \in 1..Len(scan) : Delete(f)
    \/ \E f \in 1..Len(scan) : Backup(f)
    \/ \E f \in 1..Len(scan) : Prompt(f)
    \/ \E i \in Commands : PromptInput(i)

\* no action reads the clock, and a directory scanned twice only repeats objects
ActionInit == Init /\ clock = At(2023, 1, 6, 12, 0, 0) /\ PATH = <<Root>>

ActionSpec == ActionInit /\ [][ActionNext]_vars

\* ConflictFile(path, base, name, Conflict.parse(name)) for any one name
Tokens == {Char("a"), Dot, M1, M2, MBad}

Names == UNION {[1..n -> Tokens] : n \in 1..MaxNameLen}

BuildInit ==
    /\ \E name \in Names : disk = [n \in {name} |-> 0]
    /\ backup = NoBackup
    /\ commit = FALSE
    /\ PATH = <<Root>>
    /\ clock = At(2023, 1, 6, 12, 0, 0)
    /\ NOW = <<>>
    /\ scan = <<>>
    /\ parent = <<>>
    /\ children = <<>>
    /\ conflict_map = <<>>
    /\ pc = "start"
    /\ treeRuns = 0
    /\ actions = NoActions
    /\ prompting = 0
    /\ last = Op("none", 0, "ok")

BuildNext == ScanForConflicts \/ ConflictMap

BuildSpec == BuildInit /\ [][BuildNext]_vars

----------------------------------------------------------------------------
(* Properties *)

Records == 1..Len(scan)

Markers(f) == Len(scan[f].conflicts)

LiveFile(f) == canonical_selected(scan[f])

AncestorFile(f) == canonical_original(scan[f])

Days(n) == n * 60 * 60 * 24

Age(f) == age_in_seconds(scan[f])

Indexed(f) == \E k \in 1..Len(conflict_map) : conflict_map[k].rec = f

\* the chain of the classifier as the specification tabulates it
Tabulated(f) ==
    IF Age(f) > Days(30) THEN "OLD"
    ELSE IF ~isfile(disk, LiveFile(f)) THEN "OBSOLETE"
    ELSE IF isfile(disk, AncestorFile(f)) /\ disk[LiveFile(f)[2]] = disk[AncestorFile(f)[2]]
         THEN "SAME"
    ELSE IF ~isfile(disk, AncestorFile(f)) THEN "ORPHANED"
    ELSE IF parent[f] # None THEN "NESTED"
    ELSE IF Age(f) < Days(5) THEN "YOUNG"
    ELSE "NONE"

\* C1: classify never fails and returns the first predicate that holds, in
\* the order OLD, OBSOLETE_BASE, SAME_CONTENT, ORPHANED, NESTED, YOUNG, else
\* NONE.
CE_C1 ==
    last.op = "check" =>
        last.res \in Classifications /\ last.res = Tabulated(last.rec)

InList(f, list) == \E k \in 1..Len(list) : list[k].rec = f

\* C2: a run with commit = true has, at its end, removed each conflict file
\* resolved to DELETE, moved each resolved to BACKUP into the backup
\* directory under its own name, and left each resolved to PROMPT in place;
\* only YOUNG resolves to PROMPT and only NONE to BACKUP.
CE_C2 ==
    (last.op = "run" /\ last.res = "ok" /\ commit) =>
        \A f \in Records :
            /\ InList(f, actions.DELETE) => scan[f].name \notin DOMAIN disk
            /\ InList(f, actions.BACKUP) =>
                   /\ scan[f].name \notin DOMAIN disk
                   /\ backup.exists
                   /\ scan[f].name \in DOMAIN backup.files
            /\ InList(f, actions.PROMPT) => scan[f].name \in DOMAIN disk
            /\ \A k \in 1..Len(actions.PROMPT) : actions.PROMPT[k].heuristic = "YOUNG"
            /\ \A k \in 1..Len(actions.BACKUP) : actions.BACKUP[k].heuristic = "NONE"

\* C3: delete and backup with commit = false, and every step of a prompt
\* (entering it, and each command typed) with either commit, leave the
\* directory, its files' contents and the backup directory as they were.
T_C3 ==
    [][(\/ last'.op \in {"delete", "backup"} /\ ~commit
        \/ last'.op \in {"prompt", "input"})
          => disk' = disk /\ backup' = backup]_vars

W_C3 ==
    /\ ~commit
    /\ last = Op("backup", 0, "printed")
    /\ ~backup.exists
    /\ \E f \in Records : scan[f].name \in DOMAIN disk

CE_C5 ==
    (/\ last.op = "check"
     /\ Markers(last.rec) = 1
     /\ parent[last.rec] = None
     /\ isfile(disk, canonical_name(scan[last.rec]))
     /\ isfile(disk, LiveFile(last.rec))
     /\ isfile(disk, AncestorFile(last.rec))
     /\ disk[scan[last.rec].name] # disk[LiveFile(last.rec)[2]])
        => /\ Age(last.rec) < Days(5) =>
                  last.res = "YOUNG" /\ Action_mapping(last.res) = "PROMPT"
           /\ (Age(last.rec) >= Days(5) /\ Age(last.rec) <= Days(30)) =>
                  last.res = "NONE" /\ Action_mapping(last.res) = "BACKUP"

\* C6: every name in which parse finds a marker builds, and selected, then
\* the markers, then the extension spell the name again.
CE_C6 ==
    (/\ last.op = "scan"
     /\ \E name \in DOMAIN disk : ~ParseRaises(name) /\ Len(parse(name)) >= 1)
        => /\ last.res = "ok"
           /\ Len(scan) = 1
           /\ scan[1].selected \o Matches(scan[1].name) \o scan[1].ext = scan[1].name

RECURSIVE Ancestor(_, _)
Ancestor(f, n) == IF n = 0 \/ parent[f] = None THEN f ELSE Ancestor(parent[f], n - 1)

Inverse ==
    \A f, g \in Records : InSeq(g, children[f]) <=> parent[g] = f

RootIsOneMarker == \A f \in Records : scan[f].root <=> Markers(f) = 1

Unresolved(f) ==
    /\ Indexed(f)
    /\ ~scan[f].root
    /\ KeyIndex(conflict_map, AncestorFile(f)) = 0

\* C8: conflict_tree completes when a non-root record's ancestor is not in
\* the index, leaves that record without parent and links every other
\* non-root record.
CE_C8 ==
    (last.op = "tree" /\ \E f \in Records : Unresolved(f)) =>
        /\ last.res = "ok"
        /\ \A f \in Records :
            /\ Unresolved(f) => parent[f] = None
            /\ (Indexed(f) /\ ~scan[f].root /\ ~Unresolved(f)) => parent[f] # None

Duplicates ==
    \E f, g \in Records : f # g /\ canonical_name(scan[f]) = canonical_name(scan[g])

\* C9: two scanned records with one canonical path make the indexing fail
\* with DuplicateCanonicalPath; none is dropped, nothing is classified.
CE_C9 ==
    (Duplicates /\ last.op \in {"map", "run"}) =>
        /\ last.res = "DuplicateCanonicalPath"
        /\ actions = NoActions

Again == last = Op("tree", 0, "ok") /\ conflict_map # <<>> /\ treeRuns' = treeRuns + 1

\* C10 as claimed: conflict_tree run again on the records a first run has
\* linked fails, whatever the records, and changes no link.
CE_C10 ==
    [][Again => /\ last'.res = "AssertionError"
                /\ parent' = parent
                /\ children' = children]_vars

NonRootIndexed == \E f \in Records : Indexed(f) /\ ~scan[f].root

\* C10: conflict_tree run again after a first run that completed fails on
\* its assertion exactly when a non-root record is indexed, and completes
\* again when all are roots; it changes no link; no step changes a parent
\* once set, and no record is twice in one children list.
T_C10 ==
    [][/\ Again => /\ parent' = parent
                   /\ children' = children
                   /\ last'.res = IF NonRootIndexed THEN "AssertionError" ELSE "ok"
       /\ \A f \in 1..Len(parent) : parent[f] # None => parent'[f] = parent[f]
       /\ \A f \in 1..Len(children') : \A i, j \in 1..Len(children'[f]) :
              children'[f][i] = children'[f][j] => i = j]_vars

W_C10 ==
    /\ last = Op("tree", 0, "AssertionError")
    /\ treeRuns = 2
    /\ \A f \in Records : (Indexed(f) /\ ~scan[f].root) => parent[f] # None
    /\ \E f \in Records : parent[f] # None

====
